---- MODULE Spec2Model ----
(***************************************************************************)
(* A model of jtssql.storage.Storage: a store that maps JSON Table Schema  *)
(* descriptors to the tables of one SQL database through a bound SQLAlchemy*)
(* MetaData object.                                                        *)
(*                                                                         *)
(* Table names are sequences of one-character strings, so that the prefix  *)
(* arithmetic of _convert_table / _restore_table is computed, not assumed. *)
(* The store keeps one piece of state of its own, the MetaData's table     *)
(* collection (metadata); the database (db) is the other half of the state.*)
(***************************************************************************)
EXTENDS Naturals, Sequences, FiniteSets, Bags, TLC

VARIABLES
    prefix,     \* Storage.__prefix, fixed at construction
    dbschema,   \* Storage.__dbschema, fixed at construction (None or a name)
    metadata,   \* Storage.__metadata.tables: physical name -> [columns]
    db,         \* the database, in the configured namespace: physical name -> [columns, rows]
    last        \* the last public call and how it ended: [op, err]

vars == <<prefix, dbschema, metadata, db, last>>

----------------------------------------------------------------------------
(* Bounds of the model *)

MaxList == 2        \* names / schemas per list call
MaxRows == 1        \* rows a table may hold
MaxCall == 2        \* rows per write call

----------------------------------------------------------------------------
(* Input domains *)

None == "None"

Names == {<<"a">>, <<"b">>}

Prefixes == {<<>>, <<"x">>}

Namespaces == {None, "ns"}

\* Tables another user of the same database may have made before the store
\* is constructed.  <<"a","x">> holds the store's prefix "x", but not in front.
ForeignTables == {<<"a", "x">>}

\* The name of field i of a descriptor; a descriptor has at most that many.
FieldName == <<"id", "name">>

SupportedTypes == {"string", "integer", "number", "boolean"}

Types == SupportedTypes \cup {"money"}

SeqsUpTo(S, lo, hi) == UNION {[1..n -> S] : n \in lo..hi}

\* A descriptor is its 'fields' list; field i is called FieldName[i], so the
\* names of a descriptor are unique.
DescriptorsOver(T, n) ==
    {[i \in 1..n |-> [name |-> FieldName[i], type |-> ty[i]]] : ty \in [1..n -> T]}

Descriptors == UNION {DescriptorsOver(Types, n) : n \in 1..Len(FieldName)}

ValidDescriptors == UNION {DescriptorsOver(SupportedTypes, n) : n \in 1..Len(FieldName)}

\* Descriptors of list calls.
ListDescriptors ==
    {<<[name |-> "id", type |-> "integer"]>>, <<[name |-> "id", type |-> "money"]>>}

\* Descriptors of the tables that hold rows.
SampleDescriptors ==
    {<<[name |-> "id", type |-> "integer"]>>,
     <<[name |-> "id", type |-> "integer"], [name |-> "name", type |-> "string"]>>,
     <<[name |-> "id", type |-> "money"]>>}

\* Rows of Python values: "int:1" is the int 1, "str:1" the string '1'.  For
\* each sample descriptor some fit, some have the wrong arity and some hold
\* a value that cannot be cast.
SampleRows ==
    {<<"int:1">>, <<"str:ab">>, <<"int:2", "str:ab">>, <<"str:1", "str:1">>,
     <<"int:1", "int:2">>}

----------------------------------------------------------------------------
(* Names *)

_convert_table(table, pfx) == pfx \o table

\* Index of the first occurrence of pfx in table, 0 when there is none.
Find(table, pfx) ==
    LET hits == {i \in 1..(Len(table) + 1 - Len(pfx)) :
                    SubSeq(table, i, i + Len(pfx) - 1) = pfx}
    IN IF Len(pfx) > Len(table) \/ hits = {} THEN 0
       ELSE CHOOSE i \in hits : \A j \in hits : i <= j

\* str.replace(prefix, '', 1): the first occurrence, wherever it is.
_restore_table(table, pfx) ==
    LET i == Find(table, pfx)
    IN IF i = 0 THEN table
       ELSE SubSeq(table, 1, i - 1) \o SubSeq(table, i + Len(pfx), Len(table))

----------------------------------------------------------------------------
(* Schemas *)

Ok(v) == [err |-> "none", val |-> v]

Err(e) == [err |-> e, val |-> <<>>]

\* _convert_schema's mapping: logical type -> SQLAlchemy type class.
ConvertMapping ==
    [string |-> "Text", integer |-> "Integer", number |-> "Float", boolean |-> "Boolean"]

\* _restore_schema's mapping: SQLAlchemy type class -> logical type.
RestoreMapping ==
    [Text |-> "string", Integer |-> "integer", Float |-> "number", Boolean |-> "boolean"]

_convert_schema(schema) ==
    IF \E i \in 1..Len(schema) : schema[i].type \notin DOMAIN ConvertMapping
    THEN Err("TypeError")
    ELSE Ok([i \in 1..Len(schema) |->
                [name |-> schema[i].name, type |-> ConvertMapping[schema[i].type]]])

_restore_schema(columns) ==
    IF \E i \in 1..Len(columns) : columns[i].type \notin DOMAIN RestoreMapping
    THEN Err("TypeError")
    ELSE Ok([i \in 1..Len(columns) |->
                [name |-> columns[i].name, type |-> RestoreMapping[columns[i].type]]])

----------------------------------------------------------------------------
(* The SQL toolkit: DDL, reflection *)

\* The column type a type class is created as.
DDLType == [Text |-> "TEXT", Integer |-> "INTEGER", Float |-> "FLOAT", Boolean |-> "BOOLEAN"]

\* Reflection gives a column the dialect's class of its database type
\* (TEXT, INTEGER, ...), a subclass of the generic class and not the class itself.
ReflectTable(dbtable) == [columns |-> dbtable.columns]

\* MetaData.reflect(): loads the tables of the database that the metadata
\* does not hold; it replaces and removes none.
reflect(md, d) ==
    [n \in DOMAIN md \cup DOMAIN d |-> IF n \in DOMAIN md THEN md[n] ELSE ReflectTable(d[n])]

\* MetaData.create_all(): creates every table of the metadata that the
\* database does not hold (checkfirst).
create_all(md, d) ==
    [n \in DOMAIN md \cup DOMAIN d |->
        IF n \in DOMAIN d THEN d[n]
        ELSE [columns |-> [i \in 1..Len(md[n].columns) |->
                            [name |-> md[n].columns[i].name,
                             type |-> DDLType[md[n].columns[i].type]]],
              rows |-> <<>>]]

\* Table(name, metadata, *columns): the table joins the metadata at once; a
\* name the metadata already holds is refused.  [err, md]
Table(md, name, columns) ==
    IF name \in DOMAIN md THEN [err |-> "InvalidRequestError", md |-> md]
    ELSE [err |-> "none",
          md |-> [n \in DOMAIN md \cup {name} |->
                    IF n = name THEN [columns |-> columns] ELSE md[n]]]

----------------------------------------------------------------------------
(* Storage.tables, Storage.check *)

tables(md) == {_restore_table(n, prefix) : n \in DOMAIN md}

check(md, table) == table \in tables(md)

----------------------------------------------------------------------------
(* Storage.create *)

\* One pass of the loop of create without its existence check.
create_step_unchecked(md, table, schema) ==
    LET cs == _convert_schema(schema)
    IN IF cs.err # "none" THEN [err |-> cs.err, md |-> md]
       ELSE Table(md, _convert_table(table, prefix), cs.val)

\* One pass of the loop of create: [err, md].
create_step(md, table, schema) ==
    IF check(md, table) THEN [err |-> "RuntimeError", md |-> md]
    ELSE LET cs == _convert_schema(schema)
         IN IF cs.err # "none" THEN [err |-> cs.err, md |-> md]
            ELSE Table(md, _convert_table(table, prefix), cs.val)

Min(a, b) == IF a <= b THEN a ELSE b

\* The loop over zip(tables, schemas), from pair i on.
RECURSIVE create_loop(_, _, _, _)
create_loop(md, tbls, schemas, i) ==
    IF i > Min(Len(tbls), Len(schemas)) THEN [err |-> "none", md |-> md]
    ELSE LET s == create_step(md, tbls[i], schemas[i])
         IN IF s.err # "none" THEN s
            ELSE create_loop(s.md, tbls, schemas, i + 1)

\* create(table, schema) with both arguments made lists: [err, md, db].
create(md, d, tbls, schemas) ==
    LET l == create_loop(md, tbls, schemas, 1)
    IN IF l.err # "none" THEN [err |-> l.err, md |-> l.md, db |-> d]
       ELSE [err |-> "none", md |-> l.md, db |-> create_all(l.md, d)]

----------------------------------------------------------------------------
(* Storage.delete *)

\* MetaData.drop_all(tables=...): each element of 'tables' is taken for a
\* Table object and asked for its name; an element that is none raises, and
\* nothing is dropped.
drop_all(d, tbls) ==
    IF \E i \in 1..Len(tbls) : tbls[i].kind # "Table"
    THEN [err |-> "AttributeError", db |-> d]
    ELSE [err |-> "none",
          db |-> [n \in DOMAIN d \ {tbls[i].name : i \in 1..Len(tbls)} |-> d[n]]]

\* The loop of delete, from name i on: [err, targets].
RECURSIVE delete_loop(_, _, _, _)
delete_loop(md, tbls, i, targets) ==
    IF i > Len(tbls) THEN [err |-> "none", targets |-> targets]
    ELSE IF ~check(md, tbls[i]) THEN [err |-> "RuntimeError", targets |-> targets]
    ELSE delete_loop(md, tbls, i + 1, Append(targets, _convert_table(tbls[i], prefix)))

\* A delete that drops each table as soon as it has checked it.
RECURSIVE delete_eager_loop(_, _, _, _)
delete_eager_loop(md, d, tbls, i) ==
    IF i > Len(tbls) THEN [err |-> "none", md |-> md, db |-> d]
    ELSE IF ~check(md, tbls[i]) THEN [err |-> "RuntimeError", md |-> md, db |-> d]
    ELSE LET key == _convert_table(tbls[i], prefix)
         IN delete_eager_loop([n \in DOMAIN md \ {key} |-> md[n]],
                              [n \in DOMAIN d \ {key} |-> d[n]], tbls, i + 1)

delete_eager(md, d, tbls) == delete_eager_loop(md, d, tbls, 1)

\* delete(table) with the argument made a list: [err, md, db].  drop_all is
\* given [targets], a list whose one element is the list of physical names.
delete(md, d, tbls) ==
    LET l == delete_loop(md, tbls, 1, <<>>)
    IN IF l.err # "none" THEN [err |-> l.err, md |-> md, db |-> d]
       ELSE LET dr == drop_all(d, <<[kind |-> "list", items |-> l.targets]>>)
            IN IF dr.err # "none" THEN [err |-> dr.err, md |-> md, db |-> d]
               ELSE [err |-> "none", md |-> reflect(md, dr.db), db |-> dr.db]

----------------------------------------------------------------------------
(* Storage.__get_dbtable, Storage.describe *)

\* '.'.join(self.__dbschema, key) gives str.join two arguments: a TypeError
\* whenever a namespace is configured.
get_dbtable(md, table) ==
    LET key == _convert_table(table, prefix)
    IN IF dbschema # None THEN Err("TypeError")
       ELSE IF key \notin DOMAIN md THEN Err("KeyError")
       ELSE Ok(key)

describe(md, table) ==
    LET g == get_dbtable(md, table)
    IN IF g.err # "none" THEN Err(g.err)
       ELSE _restore_schema(md[g.val].columns)

----------------------------------------------------------------------------
(* SchemaModel.convert_row *)

\* The cast of one value to a logical type; "error" when it cannot be cast.
Cast(type, value) ==
    CASE type = "string" ->
            IF value \in {"str:1", "str:ab"} THEN value ELSE "error"
      [] type = "integer" ->
            IF value \in {"int:1", "int:2"} THEN value
            ELSE IF value = "str:1" THEN "int:1" ELSE "error"
      [] type = "number" ->
            IF value \in {"int:1", "str:1", "num:1"} THEN "num:1"
            ELSE IF value \in {"int:2", "num:2"} THEN "num:2" ELSE "error"
      [] type = "boolean" ->
            IF value \in {"bool:true", "bool:false"} THEN value ELSE "error"
      [] OTHER -> "error"

convert_row(schema, row) ==
    IF Len(row) # Len(schema) THEN Err("ConversionError")
    ELSE LET out == [i \in 1..Len(row) |-> Cast(schema[i].type, row[i])]
         IN IF \E i \in 1..Len(out) : out[i] = "error" THEN Err("InvalidCastError")
            ELSE Ok(out)

----------------------------------------------------------------------------
(* Storage.write *)

\* The record write builds of a converted row, keyed by field name.
rdata(schema, row) ==
    [f \in {schema[i].name : i \in 1..Len(schema)} |->
        row[CHOOSE i \in 1..Len(schema) : schema[i].name = f]]

\* The loop of write over data, from row i on: [err, val: the records so far].
RECURSIVE cdata(_, _, _, _)
cdata(schema, data, i, acc) ==
    IF i > Len(data) THEN Ok(acc)
    ELSE LET c == convert_row(schema, data[i])
         IN IF c.err # "none" THEN [err |-> c.err, val |-> acc]
            ELSE cdata(schema, data, i + 1, Append(acc, rdata(schema, c.val)))

\* dbtable.insert().execute(records): one bulk insert.
insert(d, key, records) ==
    IF key \notin DOMAIN d THEN [err |-> "OperationalError", db |-> d]
    ELSE [err |-> "none",
          db |-> [d EXCEPT ![key].rows = d[key].rows \o records]]

\* A write that inserts each row as soon as it is converted.
write_eager(md, d, table, data) ==
    LET s == describe(md, table)
    IN IF s.err # "none" THEN [err |-> s.err, db |-> d]
       ELSE LET c == cdata(s.val, data, 1, <<>>)
                i == insert(d, get_dbtable(md, table).val, c.val)
            IN IF i.err # "none" THEN i ELSE [err |-> c.err, db |-> i.db]

\* write(table, data): [err, db].
write(md, d, table, data) ==
    LET s == describe(md, table)
    IN IF s.err # "none" THEN [err |-> s.err, db |-> d]
       ELSE LET c == cdata(s.val, data, 1, <<>>)
            IN IF c.err # "none" THEN [err |-> c.err, db |-> d]
               ELSE insert(d, get_dbtable(md, table).val, c.val)

----------------------------------------------------------------------------
(* Storage.read *)

\* dbtable.select().execute(): the stored rows as tuples in the order of the
\* table's columns.
select(md, d, key) ==
    IF key \notin DOMAIN d THEN Err("OperationalError")
    ELSE Ok([k \in 1..Len(d[key].rows) |->
                [i \in 1..Len(md[key].columns) |-> d[key].rows[k][md[key].columns[i].name]]])

\* read(table): [err, val: the rows].
read(md, d, table) ==
    LET g == get_dbtable(md, table)
    IN IF g.err # "none" THEN Err(g.err)
       ELSE LET result == select(md, d, g.val)
                s == describe(md, table)
            IN IF result.err # "none" THEN Err(result.err)
               ELSE IF s.err # "none" THEN Err(s.err)
               ELSE LET rows == [k \in 1..Len(result.val) |-> convert_row(s.val, result.val[k])]
                    IN IF \E k \in 1..Len(rows) : rows[k].err # "none"
                       THEN Err("InvalidCastError")
                       ELSE Ok([k \in 1..Len(rows) |-> rows[k].val])

----------------------------------------------------------------------------
(* The state machine *)

\* Storage.__init__: the metadata reflects the database as it is found.
Init ==
    /\ prefix \in Prefixes
    /\ dbschema \in Namespaces
    /\ \E pre \in SUBSET ForeignTables :
          db = [n \in pre |->
                  [columns |-> <<[name |-> "id", type |-> "INTEGER"]>>, rows |-> <<>>]]
    /\ metadata = reflect(<<>>, db)
    /\ last = [op |-> "init", err |-> "none"]

\* create(name, descriptor): a string and a dict, each made a list of one.
Create(DS) ==
    \E table \in Names, schema \in DS :
        LET r == create(metadata, db, <<table>>, <<schema>>)
        IN /\ metadata' = r.md
           /\ db' = r.db
           /\ last' = [op |-> "create", err |-> r.err]
           /\ UNCHANGED <<prefix, dbschema>>

\* create(list of names, list of descriptors).
CreateList ==
    \E tbls \in SeqsUpTo(Names, 0, MaxList), schemas \in SeqsUpTo(ListDescriptors, 0, MaxList) :
        LET r == create(metadata, db, tbls, schemas)
        IN /\ metadata' = r.md
           /\ db' = r.db
           /\ last' = [op |-> "create", err |-> r.err]
           /\ UNCHANGED <<prefix, dbschema>>

\* delete(name) and delete(list of names).
Delete ==
    \E tbls \in SeqsUpTo(Names, 0, MaxList) :
        LET r == delete(metadata, db, tbls)
        IN /\ metadata' = r.md
           /\ db' = r.db
           /\ last' = [op |-> "delete", err |-> r.err]
           /\ UNCHANGED <<prefix, dbschema>>

Describe ==
    \E table \in Names :
        /\ last' = [op |-> "describe", err |-> describe(metadata, table).err]
        /\ UNCHANGED <<prefix, dbschema, metadata, db>>

Tables ==
    \E table \in Names :
        /\ last' = [op |-> IF check(metadata, table) THEN "check:true" ELSE "check:false",
                    err |-> "none"]
        /\ UNCHANGED <<prefix, dbschema, metadata, db>>

Read ==
    \E table \in Names :
        /\ last' = [op |-> "read", err |-> read(metadata, db, table).err]
        /\ UNCHANGED <<prefix, dbschema, metadata, db>>

Write ==
    \E table \in Names, data \in SeqsUpTo(SampleRows, 1, MaxCall) :
        LET r == write(metadata, db, table, data)
        IN /\ \A n \in DOMAIN r.db : Len(r.db[n].rows) <= MaxRows
           /\ db' = r.db
           /\ last' = [op |-> "write", err |-> r.err]
           /\ UNCHANGED <<prefix, dbschema, metadata>>

\* Schema management, over every descriptor.
Next == Create(Descriptors) \/ CreateList \/ Delete \/ Describe \/ Tables

Spec == Init /\ [][Next]_vars

\* Data, over the sample descriptors.
NextData ==
    Create(SampleDescriptors) \/ CreateList \/ Delete \/ Describe \/ Tables \/ Write \/ Read

SpecData == Init /\ [][NextData]_vars

----------------------------------------------------------------------------
(* Vocabulary of the properties *)

Key(table) == _convert_table(table, prefix)

\* table was made by create through this store and is in the database: its
\* columns in the metadata carry the classes of ConvertMapping.
StoreCreated(table) ==
    /\ Key(table) \in DOMAIN metadata
    /\ Key(table) \in DOMAIN db
    /\ \A i \in 1..Len(metadata[Key(table)].columns) :
          metadata[Key(table)].columns[i].type \in DOMAIN RestoreMapping

\* The descriptor a store-created table was created with.
SchemaOf(table) == _restore_schema(metadata[Key(table)].columns).val

FieldSet(schema) == {schema[i] : i \in 1..Len(schema)}

BagOfSeq(s) ==
    [v \in {s[i] : i \in 1..Len(s)} |-> Cardinality({i \in 1..Len(s) : s[i] = v})]

\* Every row of data has the arity of schema and values that can be cast.
Fits(schema, data) == \A i \in 1..Len(data) : convert_row(schema, data[i]).err = "none"

Converted(schema, data) == [i \in 1..Len(data) |-> convert_row(schema, data[i]).val]

NameLists == SeqsUpTo(Names, 1, MaxList)

DataLists == SeqsUpTo(SampleRows, 1, MaxCall)

----------------------------------------------------------------------------
(* C1 *)

\* C1: for every valid descriptor D and every table name t that does not
\* exist, create(t, D) succeeds and describe(t) then returns a descriptor
\* with the same (name, type) fields as D.
C1_RoundTrip ==
    \A table \in Names, D \in ValidDescriptors :
        ~check(metadata, table) =>
            LET r == create(metadata, db, <<table>>, <<D>>)
                s == describe(r.md, table)
            IN /\ r.err = "none"
               /\ s.err = "none"
               /\ Len(s.val) = Len(D)
               /\ FieldSet(s.val) = FieldSet(D)

\* What remains of the round trip when no namespace is configured.
RoundTripWithoutNamespace == dbschema = None => C1_RoundTrip

----------------------------------------------------------------------------
(* C2 *)

\* C2: create(t, D) on a name t for which check(t) is true fails with
\* RuntimeError and leaves the metadata (hence tables()) and the database as
\* they were; and after a create(t, D) that succeeded, every further
\* create(t, D2) fails with RuntimeError.
C2_CreateExistingFails ==
    \A table \in Names, D \in Descriptors :
        LET r == create(metadata, db, <<table>>, <<D>>)
        IN /\ check(metadata, table) =>
                (r.err = "RuntimeError" /\ r.md = metadata /\ r.db = db)
           /\ (~check(metadata, table) /\ r.err = "none") =>
                \A D2 \in SampleDescriptors :
                    LET r2 == create(r.md, r.db, <<table>>, <<D2>>)
                    IN r2.err = "RuntimeError" /\ r2.md = r.md /\ r2.db = r.db

\* A create has just failed with RuntimeError on a store that holds a table
\* it created.
C2_Witness ==
    /\ last = [op |-> "create", err |-> "RuntimeError"]
    /\ \E table \in Names : StoreCreated(table)

----------------------------------------------------------------------------
(* C3 *)

\* C3: delete of a list of names of which one does not exist fails with
\* RuntimeError and drops nothing: the database and the metadata are as they
\* were.
C3_DeleteMissingFails ==
    \A tbls \in NameLists :
        (\E i \in 1..Len(tbls) : ~check(metadata, tbls[i])) =>
            LET r == delete(metadata, db, tbls)
            IN r.err = "RuntimeError" /\ r.db = db /\ r.md = metadata

\* A delete has just failed with RuntimeError on a store where one name
\* exists, as a table the store created, and another does not.
C3_Witness ==
    /\ last = [op |-> "delete", err |-> "RuntimeError"]
    /\ \E t1, t2 \in Names : StoreCreated(t1) /\ ~check(metadata, t2)

----------------------------------------------------------------------------
(* C4 *)

\* C4: delete(t) of an existing table succeeds; after it the physical table
\* prefix+t is gone, check(t) is false, every other table is as it was, and
\* create(t, D) succeeds.
C4_DeleteDrops ==
    \A table \in Names :
        StoreCreated(table) =>
            LET r == delete(metadata, db, <<table>>)
            IN /\ r.err = "none"
               /\ Key(table) \notin DOMAIN r.db
               /\ ~check(r.md, table)
               /\ \A n \in DOMAIN db \ {Key(table)} : n \in DOMAIN r.db /\ r.db[n] = db[n]
               /\ \A D \in SampleDescriptors \cap ValidDescriptors :
                     create(r.md, r.db, <<table>>, <<D>>).err = "none"

----------------------------------------------------------------------------
(* C5 *)

\* C5: a create call, of one name or of a list of distinct names none of
\* which exists, in which some field has an unsupported type fails with
\* TypeError, creates nothing in the database, and leaves check(n) false for
\* every name n of the call.
C5_UnsupportedTypeCreatesNothing ==
    \A tbls \in NameLists, schemas \in SeqsUpTo(ListDescriptors, 1, MaxList) :
        ( /\ Len(tbls) = Len(schemas)
          /\ \A i, j \in 1..Len(tbls) : tbls[i] = tbls[j] => i = j
          /\ \A i \in 1..Len(tbls) : ~check(metadata, tbls[i])
          /\ \E i \in 1..Len(schemas) : schemas[i] \notin ValidDescriptors ) =>
            LET r == create(metadata, db, tbls, schemas)
            IN /\ r.err = "TypeError"
               /\ r.db = db
               /\ \A i \in 1..Len(tbls) : ~check(r.md, tbls[i])

----------------------------------------------------------------------------
(* C6 *)

\* The names n for which a physical table prefix+n exists.
PrefixedTables ==
    {SubSeq(p, Len(prefix) + 1, Len(p)) :
        p \in {q \in DOMAIN db : Len(q) >= Len(prefix) /\ SubSeq(q, 1, Len(prefix)) = prefix}}

\* C6: tables() is exactly the set of names n for which a physical table
\* named prefix+n exists.
C6_ListsPrefixedTables == tables(metadata) = PrefixedTables

----------------------------------------------------------------------------
(* C7 *)

\* C7: for a table the store created and rows that fit its schema,
\* write(t, rows) succeeds and read(t) then returns, as a multiset, the rows
\* the table held before together with the rows written (for an empty table:
\* the rows written).
C7_WriteThenRead ==
    \A table \in Names, data \in DataLists :
        (StoreCreated(table) /\ Fits(SchemaOf(table), data)) =>
            LET before == select(metadata, db, Key(table)).val
                w == write(metadata, db, table, data)
                r == read(metadata, w.db, table)
            IN /\ w.err = "none"
               /\ r.err = "none"
               /\ BagOfSeq(r.val) = BagOfSeq(before) (+) BagOfSeq(Converted(SchemaOf(table), data))

\* What remains of the law when no namespace is configured.
WriteThenReadWithoutNamespace == dbschema = None => C7_WriteThenRead

----------------------------------------------------------------------------
(* C8 *)

\* C8: write(t, rows) on an existing table fails when some row has the wrong
\* arity or a value that cannot be cast, whatever the place of that row, and
\* a write that fails inserts no row: the database is as it was.
C8_FailedWriteInsertsNothing ==
    \A table \in Names, data \in DataLists :
        LET w == write(metadata, db, table, data)
        IN /\ (StoreCreated(table) /\ ~Fits(SchemaOf(table), data)) => w.err # "none"
           /\ w.err # "none" => w.db = db

\* A write has just failed in the conversion of a row, on a store without a
\* namespace whose table holds rows, and a write whose second row is the one
\* that does not fit fails there too.
C8_Witness ==
    /\ last.op = "write"
    /\ last.err \in {"ConversionError", "InvalidCastError"}
    /\ \E table \in Names, data \in DataLists :
          /\ StoreCreated(table)
          /\ db[Key(table)].rows # <<>>
          /\ Len(data) = 2
          /\ Fits(SchemaOf(table), <<data[1]>>)
          /\ ~Fits(SchemaOf(table), <<data[2]>>)
          /\ write(metadata, db, table, data).err \in {"ConversionError", "InvalidCastError"}

----------------------------------------------------------------------------
(* C9 *)

\* C9: with a namespace configured, describe, read and write of a table the
\* store created find the table and succeed, describe with the descriptor
\* the table was created with.
C9_NamespaceResolves ==
    dbschema # None =>
        \A table \in Names :
            StoreCreated(table) =>
                /\ describe(metadata, table) = Ok(SchemaOf(table))
                /\ read(metadata, db, table).err = "none"
                /\ \A data \in DataLists :
                      Fits(SchemaOf(table), data) =>
                          write(metadata, db, table, data).err = "none"

----------------------------------------------------------------------------
(* C10 *)

\* C10: after any sequence of create and delete calls the metadata holds
\* exactly the tables that exist in the database.
C10_MetadataMatchesDatabase == DOMAIN metadata = DOMAIN db

====
